---------------------------- MODULE Spec2Model ----------------------------
(***************************************************************************)
(* Model of beta_calc (src/main.py): portfolio weights from share counts   *)
(* and latest prices, the Beta of one price column against a benchmark     *)
(* column, and the weighted sum of the per-ticker Betas.                   *)
(*                                                                         *)
(* Numbers.  Every number the program computes is a Python/numpy float.    *)
(* A number is modelled as a pair <<n, d>> with d >= 0: the rational n/d   *)
(* when d > 0, NaN as <<0, 0>>, +inf as <<1, 0>>, -inf as <<-1, 0>>.  Each  *)
(* arithmetic operation of the source computes the exact result and rounds *)
(* it to the nearest number with MantBits significant bits, ties to even   *)
(* (IEEE-754 round-to-nearest).  The interpreter's floats have 53          *)
(* significant bits; TLC's integers have 32 bits, so the model keeps the   *)
(* rounding rule and scales the precision down.  Exponent overflow and     *)
(* underflow are not modelled.                                             *)
(*                                                                         *)
(* Library calls.  pandas is not part of the repository; concat/dropna,    *)
(* pct_change, cov and var are modelled by their documented results, each  *)
(* result rounded once (the most accurate float library possible).         *)
(***************************************************************************)
EXTENDS Integers, Sequences, FiniteSets

VARIABLES
    pc,                    \* position in the run
    tickers,               \* main: the tickers the user entered, in order
    shares,                \* main: the share counts, same order
    index_ticker,          \* main: the benchmark ticker
    latest_price,          \* the provider's data: ticker -> latest price, as last served
    weights,               \* result of calculate_portfolio_weights
    adj_close,             \* the provider's data: ticker -> price column, as last served
    provider_calls,        \* the provider requests made so far, oldest first
    individual_stock_data, \* calculate_individual_beta: the asset's price column
    index_data,            \* calculate_individual_beta: the benchmark's price column
    returns,               \* calculate_individual_beta: rows <<asset return, index return>>
    beta,                  \* result of calculate_individual_beta
    betas,                 \* calculate_portfolio_beta: the Beta computed at each position
    portfolio_beta,        \* result of calculate_portfolio_beta
    raised                 \* the exception the call ended with, "none" when it returned

vars == <<pc, tickers, shares, index_ticker, latest_price, weights, adj_close,
          provider_calls,
          individual_stock_data, index_data, returns, beta, betas,
          portfolio_beta, raised>>

---------------------------------------------------------------------------
(* Bounds of the model. *)

\* significant bits of a float (the interpreter's floats have 53)
MantBits == 5

\* share counts entered are 1 .. MaxShare
MaxShare == 2

\* trading dates of a price column are 1 .. NumDates
NumDates == 3

---------------------------------------------------------------------------
(* Extended rationals. *)

Abs(i) == IF i < 0 THEN -i ELSE i

Sgn(i) == IF i < 0 THEN -1 ELSE IF i = 0 THEN 0 ELSE 1

RECURSIVE Gcd(_, _)
Gcd(a, b) == IF b = 0 THEN a ELSE Gcd(b, a % b)

RECURSIVE Pow2(_)
Pow2(k) == IF k = 0 THEN 1 ELSE 2 * Pow2(k - 1)

\* n/d in lowest terms with d > 0; d = 0 gives NaN (n = 0) or an infinity
Norm(n, d) ==
    IF d = 0 THEN <<Sgn(n), 0>>
    ELSE LET g == Gcd(Abs(n), Abs(d))
         IN  <<Sgn(d) * (n \div g), Abs(d) \div g>>

NaN == <<0, 0>>
Zero == <<0, 1>>
One == <<1, 1>>
Num(i) == <<i, 1>>

IsNaN(x) == x = NaN
IsFinite(x) == x[2] > 0

QNeg(x) == <<-x[1], x[2]>>
QAbs(x) == <<Abs(x[1]), x[2]>>

\* exact product; 0 * inf and NaN * x come out as <<0, 0>>
QMul(x, y) == Norm(x[1] * y[1], x[2] * y[2])

\* exact sum; inf + (-inf) and NaN + x come out as <<0, 0>>
QAdd(x, y) ==
    IF x[2] = 0 /\ y[2] = 0
    THEN (IF x = y THEN x ELSE NaN)
    ELSE LET g == Gcd(x[2], y[2])
             dx == IF g = 0 THEN 0 ELSE x[2] \div g
             dy == IF g = 0 THEN 0 ELSE y[2] \div g
         IN  IF x[2] = 0 THEN x
             ELSE IF y[2] = 0 THEN y
             ELSE Norm(x[1] * dy + y[1] * dx, dx * y[2])

QSub(x, y) == QAdd(x, QNeg(y))

\* 1/x: 1/0 = +inf, 1/inf = 0, 1/NaN = NaN
QInv(x) == IF x = NaN THEN NaN ELSE Norm(Sgn(x[1]) * x[2], Abs(x[1]))

\* exact quotient; 0/0 and inf/inf come out as NaN, x/0 as an infinity
QDiv(x, y) == IF y = Zero /\ IsFinite(x) THEN Norm(x[1], 0) ELSE QMul(x, QInv(y))

\* the exact sum of the first n numbers of a list
RECURSIVE QSum(_, _)
QSum(seq, n) == IF n = 0 THEN Zero ELSE QAdd(QSum(seq, n - 1), seq[n])

\* comparisons of finite numbers
QLe(x, y) == x[1] * y[2] <= y[1] * x[2]
QLt(x, y) == x[1] * y[2] < y[1] * x[2]

---------------------------------------------------------------------------
(* Floating point: round to nearest, ties to even, MantBits significant bits. *)

RECURSIVE ExpUp(_, _, _)
ExpUp(n, d, e) == IF n >= d * Pow2(e + 1) THEN ExpUp(n, d, e + 1) ELSE e

RECURSIVE ExpDown(_, _, _)
ExpDown(n, d, e) == IF n * Pow2(-e) >= d THEN e ELSE ExpDown(n, d, e - 1)

\* the e with 2^e <= n/d < 2^(e+1), for n, d > 0
FloorLog2(n, d) == IF n >= d THEN ExpUp(n, d, 0) ELSE ExpDown(n, d, -1)

\* the integer nearest to n/d, a tie going to the even one
RoundHalfEven(n, d) ==
    LET q == n \div d
        r == n % d
    IN  IF 2 * r > d \/ (2 * r = d /\ q % 2 = 1) THEN q + 1 ELSE q

Fl(x) ==
    IF x[2] = 0 \/ x[1] = 0 THEN x
    ELSE LET n == Abs(x[1])
             d == x[2]
             s == FloorLog2(n, d) - (MantBits - 1)
             m == IF s >= 0 THEN RoundHalfEven(n, d * Pow2(s))
                  ELSE RoundHalfEven(n * Pow2(-s), d)
         IN  IF s >= 0 THEN Norm(Sgn(x[1]) * m * Pow2(s), 1)
             ELSE Norm(Sgn(x[1]) * m, Pow2(-s))

\* the float operators +, -, *, / of the source
FAdd(x, y) == Fl(QAdd(x, y))
FSub(x, y) == Fl(QSub(x, y))
FMul(x, y) == Fl(QMul(x, y))
FDiv(x, y) == Fl(QDiv(x, y))

---------------------------------------------------------------------------
(* Inputs and the data provider. *)

Tickers == {"AAPL", "MSFT", "TSLA"}

\* the sequences that list every element of S once
Orderings(S) ==
    {f \in [1 .. Cardinality(S) -> S] : \A i, j \in DOMAIN f : f[i] = f[j] => i = j}

\* a portfolio lists one or more distinct tickers, in the order entered
TickerLists == UNION {Orderings(S) : S \in (SUBSET Tickers) \ {{}}}

\* get_valid_share returns a float greater than 0
ShareVals == {Num(i) : i \in 1 .. MaxShare}

\* adjusted-close prices are positive; NaN stands for a missing value
PriceVals == {Num(1), Num(2), Num(3)}

Range(f) == {f[i] : i \in DOMAIN f}

\* A pandas Series or DataFrame: one value per label, the labels in the order
\* the provider chose, as a sequence of <<label, value>>.
Labelled(order, value) == [i \in DOMAIN order |-> <<order[i], value[order[i]]>>]

Keys(series) == {series[i][1] : i \in DOMAIN series}

\* the data a reply carries, by label
ByLabel(series) ==
    [k \in Keys(series) |->
        series[CHOOSE j \in DOMAIN series : series[j][1] = k][2]]

\* What the provider can return for a request: the labels it covers (all of
\* them unless mayOmit), the order it lists them in, and a value for each.
Replies(requested, values, mayOmit) ==
    UNION {UNION {{Labelled(order, value) : value \in [S -> values]}
                  : order \in Orderings(S)}
           : S \in IF mayOmit THEN SUBSET requested ELSE {requested}}

---------------------------------------------------------------------------
(* calculate_portfolio_weights, src/main.py 74-81. *)

\* variant of PriceAt: the price standing at position i of the reply
PriceAtPosition(current_prices, tks, i) == current_prices[i][2]

\* current_prices[ticker] for the ticker at position i of the list
PriceAt(current_prices, tks, i) ==
    LET j == CHOOSE k \in DOMAIN current_prices : current_prices[k][1] = tks[i]
    IN  current_prices[j][2]

\* current_prices[ticker] * shares[i]
PositionValue(current_prices, tks, shs, i) ==
    FMul(PriceAt(current_prices, tks, i), shs[i])

\* sum(...): left to right, starting from 0
RECURSIVE SumValues(_, _, _, _)
SumValues(current_prices, tks, shs, n) ==
    IF n = 0 THEN Zero
    ELSE FAdd(SumValues(current_prices, tks, shs, n - 1),
              PositionValue(current_prices, tks, shs, n))

\* variant of TotalValue: the sum stops one position short
TotalValueSkipLast(current_prices, tks, shs) ==
    SumValues(current_prices, tks, shs, Len(tks) - 1)

TotalValue(current_prices, tks, shs) ==
    SumValues(current_prices, tks, shs, Len(tks))

\* the list comprehension of line 80
WeightList(current_prices, tks, shs) ==
    [i \in 1 .. Len(tks) |->
        FDiv(PositionValue(current_prices, tks, shs, i),
             TotalValue(current_prices, tks, shs))]

\* The else branch, lines 78-81: one provider request, then the weights; a
\* ticker the reply does not list raises KeyError at its lookup.
PricedWeights(values, mayOmit) ==
    \E current_prices \in Replies(Range(tickers), values, mayOmit) :
        /\ latest_price' = ByLabel(current_prices)
        /\ provider_calls' = Append(provider_calls, "get_current_prices")
        /\ IF Range(tickers) \subseteq Keys(current_prices)
           THEN /\ weights' = WeightList(current_prices, tickers, shares)
                /\ raised' = "none"
           ELSE /\ weights' = weights
                /\ raised' = "KeyError"

\* variant of calculate_portfolio_weights: every portfolio is priced
calculate_portfolio_weights_no_short_circuit(values, mayOmit) ==
    /\ pc = "start"
    /\ pc' = "weighted"
    /\ PricedWeights(values, mayOmit)
    /\ UNCHANGED <<tickers, shares, index_ticker, adj_close,
                   individual_stock_data, index_data, returns, beta, betas,
                   portfolio_beta>>

\* The call of main, line 125.  values and mayOmit say what the provider may
\* answer.
calculate_portfolio_weights(values, mayOmit) ==
    /\ pc = "start"
    /\ pc' = "weighted"
    /\ \/ /\ Len(tickers) = 1
          /\ weights' = <<One>>
          /\ raised' = "none"
          /\ UNCHANGED <<latest_price, provider_calls>>
       \/ /\ Len(tickers) # 1
          /\ PricedWeights(values, mayOmit)
    /\ UNCHANGED <<tickers, shares, index_ticker, adj_close,
                   individual_stock_data, index_data, returns, beta, betas,
                   portfolio_beta>>

---------------------------------------------------------------------------
(* SpecWeights: calculate_portfolio_weights called on any portfolio, the   *)
(* provider free to omit a ticker or to return NaN for it.                 *)

NoData == [k \in {} |-> NaN]

\* main at line 125: the portfolio has been entered, nothing computed yet
Entered(shareVals) ==
    /\ pc = "start"
    /\ tickers \in TickerLists
    /\ shares \in [1 .. Len(tickers) -> shareVals]
    /\ index_ticker = "^GSPC"
    /\ latest_price = NoData
    /\ weights = <<>>
    /\ adj_close = NoData
    /\ provider_calls = <<>>
    /\ individual_stock_data = <<>>
    /\ index_data = <<>>
    /\ returns = <<>>
    /\ beta = NaN
    /\ betas = <<>>
    /\ portfolio_beta = Zero
    /\ raised = "none"

InitWeights == Entered(ShareVals)

NextWeights == calculate_portfolio_weights(PriceVals \cup {NaN}, TRUE)

SpecWeights == InitWeights /\ [][NextWeights]_vars

---------------------------------------------------------------------------
(* Claims about calculate_portfolio_weights. *)

\* the unit roundoff 2^-MantBits, and j times it
Roundoff(j) == Norm(j, Pow2(MantBits))

\* whether x is within tol of y (finite numbers)
Within(x, y, tol) == IsFinite(x) /\ QLe(QAbs(QSub(x, y)), tol)

\* calculate_portfolio_weights has returned weights for a portfolio of two or
\* more positions whose latest prices are all present and positive
PricedPortfolio ==
    /\ pc = "weighted"
    /\ raised = "none"
    /\ Len(tickers) >= 2
    /\ \A t \in Range(tickers) :
          t \in DOMAIN latest_price /\ QLt(Zero, latest_price[t])

\* C1: for a portfolio of two or more positions with positive share counts
\* and positive latest prices, every weight is greater than 0 and at most 1
\* and the weights sum to 1 within the rounding of the float operations
\* (2n units roundoff for n positions, far below 1e-9 at 53 bits).
C1_WeightsSumToOne ==
    PricedPortfolio =>
        /\ Len(weights) = Len(tickers)
        /\ \A i \in DOMAIN weights :
              /\ IsFinite(weights[i])
              /\ QLt(Zero, weights[i])
              /\ QLe(weights[i], One)
        /\ Within(QSum(weights, Len(weights)), One,
                  Roundoff(2 * Len(tickers)))

\* three positions whose weights were rounded: their sum is not exactly 1
C1_Witness ==
    /\ PricedPortfolio
    /\ Len(tickers) = 3
    /\ QSum(weights, Len(weights)) # One

\* C2: with exactly one position the weight list is [1.0], whatever the share
\* count, and the provider is never asked for a price.
C2_SinglePosition ==
    (pc = "weighted" /\ Len(tickers) = 1) =>
        /\ weights = <<One>>
        /\ raised = "none"
        /\ provider_calls = <<>>
        /\ latest_price = NoData

C2_Witness ==
    /\ pc = "weighted"
    /\ Len(tickers) = 1
    /\ shares[1] = Num(2)
    /\ weights = <<One>>

\* a requested ticker has no latest price: the reply does not list it, or
\* lists it with NaN
MissingPrice ==
    \E t \in Range(tickers) :
        t \notin DOMAIN latest_price \/ IsNaN(latest_price[t])

\* C6: for two or more positions, a requested ticker without a latest price
\* makes calculate_portfolio_weights fail (any exception is counted as the
\* MissingPriceError outcome) and return no weights.
C6_MissingPriceFails ==
    (pc = "weighted" /\ Len(tickers) >= 2 /\ MissingPrice) =>
        /\ raised # "none"
        /\ weights = <<>>

---------------------------------------------------------------------------
(* calculate_individual_beta, src/main.py 45-52.  A price column is a      *)
(* sequence over the trading dates 1 .. NumDates, NaN where the ticker has *)
(* no price.  Both columns come from one table and share its dates.        *)

\* pd.concat([stock_data, index_data], axis=1): one row per date
Concat(stock, index) == [t \in DOMAIN stock |-> <<stock[t], index[t]>>]

\* variant of DropNa: only a missing asset price drops the row
DropNaAssetOnly(rows) == SelectSeq(rows, LAMBDA r : ~IsNaN(r[1]))

\* dropna(): the rows without a missing value, in order
DropNa(rows) == SelectSeq(rows, LAMBDA r : ~IsNaN(r[1]) /\ ~IsNaN(r[2]))

\* one cell of pct_change: price / previous price - 1
Change(price, prev) == FSub(FDiv(price, prev), One)

\* pct_change(): each row against the row before it, the first row NaN
PctChange(rows) ==
    [t \in DOMAIN rows |->
        IF t = 1 THEN <<NaN, NaN>>
        ELSE <<Change(rows[t][1], rows[t - 1][1]),
               Change(rows[t][2], rows[t - 1][2])>>]

\* lines 46-48
BuildReturns(stock, index) == DropNa(PctChange(DropNa(Concat(stock, index))))

Column(rows, c) == [t \in DOMAIN rows |-> rows[t][c]]

QMean(xs) == QDiv(QSum(xs, Len(xs)), Num(Len(xs)))

\* the sum over the first n rows of (x - mean x)(y - mean y)
RECURSIVE CoMoment(_, _, _)
CoMoment(xs, ys, n) ==
    IF n = 0 THEN Zero
    ELSE QAdd(CoMoment(xs, ys, n - 1),
              QMul(QSub(xs[n], QMean(xs)), QSub(ys[n], QMean(ys))))

\* pandas cov and var: the sample statistic (divisor n - 1), NaN below two
\* observations
SampleCov(xs, ys) ==
    IF Len(xs) < 2 THEN NaN
    ELSE Fl(QDiv(CoMoment(xs, ys, Len(xs)), Num(Len(xs) - 1)))

\* variant of EstimateBeta: the variance is taken of the asset column
EstimateBetaAssetVariance(rets) ==
    FDiv(SampleCov(Column(rets, 1), Column(rets, 2)),
         SampleCov(Column(rets, 1), Column(rets, 1)))

\* lines 49-51: returns.cov().iloc[0, 1] / returns.iloc[:, 1].var()
EstimateBeta(rets) ==
    FDiv(SampleCov(Column(rets, 1), Column(rets, 2)),
         SampleCov(Column(rets, 2), Column(rets, 2)))

\* the whole function: lines 46-52
ComputeBeta(stock, index) == EstimateBeta(BuildReturns(stock, index))

Dates == 1 .. NumDates

\* price columns the provider serves to main: 1, 2, 3, ... and 2, 3, 2, ...
Rising == [t \in Dates |-> Num(t)]
Zigzag == [t \in Dates |-> Num(IF t % 2 = 1 THEN 2 ELSE 3)]

MainColumns == {Rising, Zigzag}

\* ComputeBeta of the columns above, evaluated once
BetaMemo ==
    {<<stock, index, ComputeBeta(stock, index)>> :
        stock \in MainColumns, index \in MainColumns}

\* calculate_individual_beta(stock, index) as an expression
IndividualBeta(stock, index) ==
    IF stock \in MainColumns /\ index \in MainColumns
    THEN (CHOOSE m \in BetaMemo : m[1] = stock /\ m[2] = index)[3]
    ELSE ComputeBeta(stock, index)

\* The function called on two columns; no path of it raises.
calculate_individual_beta ==
    /\ pc = "start"
    /\ pc' = "done"
    /\ returns' = BuildReturns(individual_stock_data, index_data)
    /\ beta' = IndividualBeta(individual_stock_data, index_data)
    /\ raised' = "none"
    /\ UNCHANGED <<tickers, shares, index_ticker, latest_price, weights,
                   adj_close, provider_calls, individual_stock_data,
                   index_data, betas, portfolio_beta>>

---------------------------------------------------------------------------
(* SpecBeta: calculate_individual_beta called on any two price columns.    *)

Columns == [Dates -> PriceVals \cup {NaN}]

InitBeta ==
    /\ pc = "start"
    /\ individual_stock_data \in Columns
    /\ index_data \in Columns
    /\ tickers = <<>>
    /\ shares = <<>>
    /\ index_ticker = "^GSPC"
    /\ latest_price = NoData
    /\ weights = <<>>
    /\ adj_close = NoData
    /\ provider_calls = <<>>
    /\ returns = <<>>
    /\ beta = NaN
    /\ betas = <<>>
    /\ portfolio_beta = Zero
    /\ raised = "none"

NextBeta == calculate_individual_beta

SpecBeta == InitBeta /\ [][NextBeta]_vars

---------------------------------------------------------------------------
(* Claims about calculate_individual_beta. *)

\* the dates on which both columns have a price
AlignedDates ==
    {t \in DOMAIN individual_stock_data :
        ~IsNaN(individual_stock_data[t]) /\ ~IsNaN(index_data[t])}

\* the k-th aligned date
NthAligned(k) ==
    CHOOSE t \in AlignedDates : Cardinality({s \in AlignedDates : s < t}) = k - 1

\* the simple return (price - prev) / prev, exactly
SimpleReturn(price, prev) == QDiv(QSub(price, prev), prev)

\* r is the simple return of price against prev up to the rounding of the
\* division and of the subtraction
IsReturnOf(r, price, prev) ==
    Within(r, SimpleReturn(price, prev),
           QMul(Roundoff(2),
                QAdd(QDiv(price, prev), QAbs(SimpleReturn(price, prev)))))

\* the benchmark returns are all the same number
ZeroVariance == \A i, j \in DOMAIN returns : returns[i][2] = returns[j][2]

\* C4: with two or more return observations and a benchmark return series of
\* zero variance, calculate_individual_beta fails (any exception is counted as
\* the DegenerateBenchmarkError outcome) instead of returning a value.
C4_DegenerateBenchmarkFails ==
    (pc = "done" /\ Len(returns) >= 2 /\ ZeroVariance) => raised # "none"

\* C5: with fewer than 2 aligned dates, or fewer than 2 return observations,
\* calculate_individual_beta fails (any exception is counted as the
\* InsufficientDataError outcome) instead of returning a value.
C5_InsufficientDataFails ==
    (pc = "done" /\ (Cardinality(AlignedDates) < 2 \/ Len(returns) < 2)) =>
        raised # "none"

\* C10: the return rows are those of the inner join: one row per aligned date
\* but the first, each return taken against the preceding aligned date, in
\* both columns.
C10_InnerJoinReturns ==
    pc = "done" =>
        /\ Len(returns) = (IF AlignedDates = {} THEN 0
                           ELSE Cardinality(AlignedDates) - 1)
        /\ \A j \in DOMAIN returns :
              LET t == NthAligned(j + 1)
                  prev == NthAligned(j)
              IN  /\ IsReturnOf(returns[j][1], individual_stock_data[t],
                                individual_stock_data[prev])
                  /\ IsReturnOf(returns[j][2], index_data[t], index_data[prev])

\* the middle date is missing for the asset only, so the one return of each
\* column spans it
C10_Witness ==
    /\ pc = "done"
    /\ NumDates >= 3
    /\ AlignedDates = {1, 3}
    /\ ~IsNaN(index_data[2])
    /\ index_data[2] # index_data[1]
    /\ Len(returns) = 1
    /\ returns[1][2] # Zero

---------------------------------------------------------------------------
(* SpecEstimator: lines 49-51 applied to any table of returns.  A return   *)
(* is a float greater than -1; each row pairs an index return with a       *)
(* multiple of it that is itself a float.                                  *)

\* a table of returns has 2 .. MaxObs rows
MaxObs == 3

ReturnVals == {<<-1, 4>>, <<1, 4>>, <<1, 2>>, <<3, 2>>}

Factors == {Num(-1), Num(1), Num(2), Num(3)}

ReturnRows ==
    {row \in {<<QMul(k, x), x>> : k \in Factors, x \in ReturnVals} :
        Fl(row[1]) = row[1] /\ QLt(Num(-1), row[1])}

ReturnTables == UNION {[1 .. n -> ReturnRows] : n \in 2 .. MaxObs}

InitEstimator ==
    /\ pc = "returns"
    /\ returns \in ReturnTables
    /\ individual_stock_data = <<>>
    /\ index_data = <<>>
    /\ tickers = <<>>
    /\ shares = <<>>
    /\ index_ticker = "^GSPC"
    /\ latest_price = NoData
    /\ weights = <<>>
    /\ adj_close = NoData
    /\ provider_calls = <<>>
    /\ beta = NaN
    /\ betas = <<>>
    /\ portfolio_beta = Zero
    /\ raised = "none"

\* lines 49-52 of calculate_individual_beta, from the returns on
estimate_beta ==
    /\ pc = "returns"
    /\ pc' = "done"
    /\ beta' = EstimateBeta(returns)
    /\ raised' = "none"
    /\ UNCHANGED <<tickers, shares, index_ticker, latest_price, weights,
                   adj_close, provider_calls, individual_stock_data,
                   index_data, returns, betas, portfolio_beta>>

NextEstimator == estimate_beta

SpecEstimator == InitEstimator /\ [][NextEstimator]_vars

---------------------------------------------------------------------------
(* Claims about the estimator. *)

\* Beta was estimated from two or more rows whose asset return is k times
\* the index return, the index returns not all equal
LinearReturns(k) ==
    /\ pc = "done"
    /\ Len(returns) >= 2
    /\ ~ZeroVariance
    /\ \A i \in DOMAIN returns : returns[i][1] = QMul(k, returns[i][2])

---------------------------------------------------------------------------
(* calculate_portfolio_beta, src/main.py 55-66. *)

\* stock_data[label]: the column under the label, wherever it stands
ColumnOf(stock_data, label) ==
    LET j == CHOOSE k \in DOMAIN stock_data : stock_data[k][1] = label
    IN  stock_data[j][2]

\* line 61-62: the Beta of the ticker at position i of the list
BetaAt(stock_data, tks, index, i) ==
    IndividualBeta(ColumnOf(stock_data, tks[i]), ColumnOf(stock_data, index))

\* variant of WeightedBeta: the weight is left out
WeightedBetaUnweighted(b, w) == b

\* line 63: beta * stock_weights[i]
WeightedBeta(b, w) == FMul(b, w)

\* lines 58-64: portfolio_beta after the first n turns of the loop
RECURSIVE Accumulate(_, _, _, _, _)
Accumulate(stock_data, tks, ws, index, n) ==
    IF n = 0 THEN Zero
    ELSE FAdd(Accumulate(stock_data, tks, ws, index, n - 1),
              WeightedBeta(BetaAt(stock_data, tks, index, n), ws[n]))

\* The call of main, line 126 (or a direct call with any weight list).  One
\* provider request for the tickers and the index, then the loop; a weight
\* list shorter than the ticker list raises IndexError at the first position
\* it lacks.  columns says what the provider may answer.
calculate_portfolio_beta(columns) ==
    /\ pc = "weighted"
    /\ raised = "none"
    /\ pc' = "done"
    /\ \E stock_data \in
             Replies(Range(tickers) \cup {index_ticker}, columns, FALSE) :
          /\ adj_close' = ByLabel(stock_data)
          /\ provider_calls' = Append(provider_calls, "get_stock_data")
          /\ IF Len(weights) < Len(tickers)
             THEN /\ betas' = [i \in 1 .. Len(weights) + 1 |->
                                  BetaAt(stock_data, tickers, index_ticker, i)]
                  /\ portfolio_beta' = portfolio_beta
                  /\ raised' = "IndexError"
             ELSE /\ betas' = [i \in 1 .. Len(tickers) |->
                                  BetaAt(stock_data, tickers, index_ticker, i)]
                  /\ portfolio_beta' = Accumulate(stock_data, tickers, weights,
                                                  index_ticker, Len(tickers))
                  /\ raised' = "none"
    /\ UNCHANGED <<tickers, shares, index_ticker, latest_price, weights,
                   individual_stock_data, index_data, returns, beta>>

---------------------------------------------------------------------------
(* Spec: main from line 125 on, for any portfolio entered: the weights,    *)
(* then the portfolio Beta.  The provider answers with prices for every    *)
(* ticker asked, in any order.                                             *)

MainShares == {Num(1), Num(2)}

MainPrices == {Num(1), Num(2)}

Init == Entered(MainShares)

Next ==
    \/ calculate_portfolio_weights(MainPrices, FALSE)
    \/ calculate_portfolio_beta(MainColumns)

Spec == Init /\ [][Next]_vars

---------------------------------------------------------------------------
(* SpecAggregate: calculate_portfolio_beta called with any weight list.    *)

WeightVals == {<<1, 4>>, <<1, 2>>}

WeightLists == UNION {[1 .. n -> WeightVals] : n \in 0 .. Cardinality(Tickers)}

InitAggregate ==
    /\ pc = "weighted"
    /\ tickers \in TickerLists
    /\ weights \in WeightLists
    /\ shares = <<>>
    /\ index_ticker = "^GSPC"
    /\ latest_price = NoData
    /\ adj_close = NoData
    /\ provider_calls = <<>>
    /\ individual_stock_data = <<>>
    /\ index_data = <<>>
    /\ returns = <<>>
    /\ beta = NaN
    /\ betas = <<>>
    /\ portfolio_beta = Zero
    /\ raised = "none"

NextAggregate == calculate_portfolio_beta(MainColumns)

SpecAggregate == InitAggregate /\ [][NextAggregate]_vars

---------------------------------------------------------------------------
(* Claims about the portfolio Beta. *)

\* main has printed a portfolio Beta
Evaluated == pc = "done" /\ raised = "none"

\* the value of the position at i, from the latest price of its own ticker
OwnValue(i) == FMul(latest_price[tickers[i]], shares[i])

RECURSIVE OwnTotal(_)
OwnTotal(n) == IF n = 0 THEN Zero ELSE FAdd(OwnTotal(n - 1), OwnValue(n))

\* the weight of the position at i, from its own share count and latest price
OwnWeight(i) ==
    IF Len(tickers) = 1 THEN One ELSE FDiv(OwnValue(i), OwnTotal(Len(tickers)))

\* the Beta of the ticker at i, from its own price column
OwnBeta(i) == IndividualBeta(adj_close[tickers[i]], adj_close[index_ticker])

RECURSIVE OwnSum(_)
OwnSum(n) == IF n = 0 THEN Zero ELSE FAdd(OwnSum(n - 1), FMul(OwnBeta(n), OwnWeight(n)))

\* C3: whatever order the provider lists latest prices and price columns in,
\* the Beta and the weight multiplied at each position are those of the
\* ticker at that position (its own column, its own share count and latest
\* price), and the portfolio Beta is the sum of these products.
C3_PairedByTicker ==
    Evaluated =>
        /\ Len(betas) = Len(tickers)
        /\ Len(weights) = Len(tickers)
        /\ \A i \in DOMAIN tickers :
              /\ betas[i] = OwnBeta(i)
              /\ weights[i] = OwnWeight(i)
        /\ portfolio_beta = OwnSum(Len(tickers))

\* three positions with different weights and different Betas
C3_Witness ==
    /\ Evaluated
    /\ Len(tickers) = 3
    /\ weights[1] # weights[2]
    /\ betas[1] # betas[2]
    /\ IsFinite(portfolio_beta)

\* every position has the same finite Beta b
AllBetas(b) == IsFinite(b) /\ \A i \in DOMAIN betas : betas[i] = b

\* C9 as stated: when every position has the same Beta b, the portfolio Beta
\* is exactly b.
C9_EqualBetasExact ==
    (Evaluated /\ AllBetas(betas[1])) => portfolio_beta = betas[1]

\* C9 as amended: when every position has the same Beta b, the portfolio
\* Beta is b up to the rounding of the weights, the products and the sum
\* (3n units roundoff for n positions, relative to b), and exactly b for a
\* single position.
C9_EqualBetasNear ==
    (Evaluated /\ AllBetas(betas[1])) =>
        /\ Within(portfolio_beta, betas[1],
                  QMul(QAbs(betas[1]), Roundoff(3 * Len(tickers))))
        /\ Len(tickers) = 1 => portfolio_beta = betas[1]

\* three positions of unequal weight with the same nonzero Beta
C9_Witness ==
    /\ Evaluated
    /\ Len(tickers) = 3
    /\ AllBetas(betas[1])
    /\ betas[1] # Zero
    /\ weights[1] # weights[2]

\* C7: a weight list that does not match the ticker list makes
\* calculate_portfolio_beta fail (any exception is counted as the
\* MismatchedTickerSetError outcome) and return no portfolio Beta.
C7_MismatchFails ==
    (pc = "done" /\ Len(weights) # Len(tickers)) => raised # "none"

===========================================================================
